---- MODULE Spec2Model ----
(***************************************************************************)
(* Inference-lifecycle orchestration of the DeepSeek-OCR Gradio app:       *)
(* ModelManager (gradio_app/modules/model_manager.py) and OCREngine        *)
(* (gradio_app/modules/ocr_engine.py).                                     *)
(*                                                                         *)
(* Every method is a sequence of steps of the calling thread; frame[t]     *)
(* holds the thread's position (pc) and the locals of the call it is in.   *)
(* The temporary directory of the machine is the pair files/dirs, the      *)
(* names tempfile hands out are the numbers tmp_seq + 1, tmp_seq + 2, ...  *)
(* What the environment decides (a loader failing, image.save failing,     *)
(* the model raising or returning None, os.remove failing) is drawn with   *)
(* \E in the step where the code meets it.  Exceptions are the subclasses  *)
(* of Exception: those are what `except Exception` catches.                *)
(***************************************************************************)
EXTENDS Integers, Sequences, FiniteSets, TLC

\* ------------------------------------------------------------------ bounds
\* tokenizer-loader invocations a behaviour may make
MaxLoads == 2
\* temporary names tempfile may hand out in a behaviour
MaxTmp == 4
\* longest list handed to infer_batch
MaxBatch == 2
\* longest text the model returns
MaxTextLen == 5

VARIABLES
    is_loaded,      \* ModelManager._is_loaded
    model,          \* ModelManager.model: None, or the object a loader call returned
    tokenizer,      \* ModelManager.tokenizer: likewise
    loader_calls,   \* invocations of AutoTokenizer / AutoModel.from_pretrained so far
    files,          \* temporary image files that exist
    dirs,           \* temporary output directories that exist
    tmp_seq,        \* temporary names handed out so far
    frame,          \* per thread: the call in progress, its position and locals
    mode,           \* get_resolution_params: the label it is given
    params,         \* get_resolution_params: what it returned
    parts,          \* the pieces (plain text, tags, spans) the raw text is made of
    raw_text,       \* parse_result: the text it is given
    parsed,         \* parse_result: what it returned
    heap,           \* the images that exist: what has been drawn on each
    draw_args,      \* draw_bounding_boxes: the arguments it is given
    drawn,          \* draw_bounding_boxes: what it returned
    request         \* per thread: the run of ocr_inference it serves

mmVars == <<is_loaded, model, tokenizer, loader_calls>>
fsVars == <<files, dirs, tmp_seq>>
\* the inputs and results of the pure functions (ImageProcessor, ResultProcessor)
pureVars == <<mode, params, parts, raw_text, parsed>>
\* the images, and the arguments and result of the renderer
drawVars == <<heap, draw_args, drawn>>
\* the requests of the hosting application (gradio_ocr_app.py)
hostVars == <<request>>
vars == <<is_loaded, model, tokenizer, loader_calls, files, dirs, tmp_seq, frame,
          mode, params, parts, raw_text, parsed, heap, draw_args, drawn, request>>

\* ------------------------------------------------------------------ values
None == [obj |-> "None", id |-> 0]
\* the object the n-th invocation of a loader returned
Obj(kind, n) == [obj |-> kind, id |-> n]

Threads == {"t1", "t2"}
\* the thread of the sequential specification
Main == "t1"

NoCause == [type |-> "none", msg |-> "none"]
\* raise type(msg), raised inside `except ... as e` when cause is e
Error(type, msg, cause) == [type |-> type, msg |-> msg, cause |-> cause]
CauseOf(e) == [type |-> e.type, msg |-> e.msg]
NoError == Error("none", "none", NoCause)

\* how a call ended
NoRet == [kind |-> "none", err |-> NoError, value |-> <<>>]
Returned(v) == [kind |-> "return", err |-> NoError, value |-> v]
Raised(e) == [kind |-> "raise", err |-> e, value |-> <<>>]

\* _detect_device: always the CPU
device == "cpu"

\* result_text before the model call returned
Unbound == [kind |-> "unbound", text |-> <<>>]

\* the ModelManager as a call finds it
Handle ==
    [is_loaded |-> is_loaded, model |-> model, tokenizer |-> tokenizer,
     loader_calls |-> loader_calls]

\* op, pc: the top-level call and the position in it; ret: how the last call
\* ended; old: the ModelManager when the call began; ncalls, created: the
\* model invocations and the temporary names of the call; the rest are the
\* locals of infer (pending: the return or raise the finally clause holds
\* back, exc: the `e` of `except Exception as e`, cleanup_error: the cleanup's
\* except clause ran; item: the place in the lists of infer_batch of the image
\* and prompt it was given, 0 for a call of its own; rmtree_called: the
\* cleanup got as far as shutil.rmtree) and of infer_batch (idx: items done),
\* outs: how each infer call of the top-level call ended, and log: the last
\* message unload_model logged
IdleFrame ==
    [op |-> "none", pc |-> "idle", ret |-> NoRet,
     old |-> [is_loaded |-> FALSE, model |-> None, tokenizer |-> None,
              loader_calls |-> [tokenizer |-> 0, model |-> 0]],
     ncalls |-> 0, created |-> {},
     temp_image_path |-> 0, temp_output_dir |-> 0, result_text |-> Unbound,
     pending |-> NoRet, exc |-> NoError, cleanup_error |-> FALSE,
     images |-> 0, prompts |-> 0, idx |-> 0, results |-> <<>>,
     item |-> 0, outs |-> <<>>, rmtree_called |-> FALSE, log |-> "none"]

\* ModelManager.__init__ and an empty temporary directory
InitHandle ==
    /\ is_loaded = FALSE
    /\ model = None
    /\ tokenizer = None
    /\ loader_calls = [tokenizer |-> 0, model |-> 0]
    /\ files = {}
    /\ dirs = {}
    /\ tmp_seq = 0
    /\ frame = [t \in Threads |-> IdleFrame]

\* get_resolution_params / parse_result not called
NoParams == <<>>
NoParsed == NoRet
NoResolve == mode = <<>> /\ params = NoParams
NoParse == parts = <<>> /\ raw_text = <<>> /\ parsed = NoParsed

\* draw_bounding_boxes not called, no image
NoArgs == [image |-> 0, boxes |-> <<>>, show_text |-> FALSE, box_width |-> 0]
NoEnv == [font |-> "none", fail |-> 0, stage |-> "none"]
NoDrawn == [kind |-> "none", exc |-> "none", image |-> 0, ops |-> <<>>, env |-> NoEnv]
NoDraw == heap = <<>> /\ draw_args = NoArgs /\ drawn = NoDrawn

\* no run of ocr_inference
NoRequest == [stage |-> "none", runs |-> 0, image |-> "none",
              save_visualization |-> FALSE, delivered |-> <<>>, ended |-> "none",
              loads |-> 0, infers |-> 0]
NoRequests == request = [t \in Threads |-> NoRequest]

Init == InitHandle /\ NoResolve /\ NoParse /\ NoDraw /\ NoRequests

\* a thread between two calls
Idle(t) == frame[t].pc = "idle"

\* the frame of a fresh top-level call of `op`, at position `pc`
Enter(op, pc) == [IdleFrame EXCEPT !.op = op, !.pc = pc, !.old = Handle]

\* the frame after the top-level call returned or raised `out`
Leave(f, out) == [f EXCEPT !.pc = "idle", !.ret = out]

\* --------------------------------------------------------- ModelManager
\* is_loaded()
IsLoaded == is_loaded

\* get_model()
get_model ==
    IF ~is_loaded
    THEN Raised(Error("RuntimeError", "model not loaded, call load_model() first", NoCause))
    ELSE Returned(model)

\* get_tokenizer()
get_tokenizer ==
    IF ~is_loaded
    THEN Raised(Error("RuntimeError", "tokenizer not loaded, call load_model() first", NoCause))
    ELSE Returned(tokenizer)

\* a caller invokes load_model()
CallLoadModel(t) ==
    /\ Idle(t)
    /\ is_loaded \/ loader_calls.tokenizer < MaxLoads
    /\ frame' = [frame EXCEPT ![t] = Enter("load_model", "load_check")]
    /\ UNCHANGED <<mmVars, fsVars, pureVars, drawVars, hostVars>>

\* load_model: `if self._is_loaded: return`
\* variant: the check is missing
LoadSkips_Never == FALSE

LoadSkips == is_loaded

LoadCheck(t) ==
    /\ frame[t].pc = "load_check"
    /\ frame' = [frame EXCEPT ![t] =
                   IF LoadSkips THEN Leave(@, Returned(None))
                   ELSE [@ EXCEPT !.pc = "load_tokenizer"]]
    /\ UNCHANGED <<mmVars, fsVars, pureVars, drawVars, hostVars>>

\* load_model: the except clause, `self._is_loaded = False; raise Exception(...)`
\* variant: the except clause logs and returns
LoadExcept_Swallows(t, e) ==
    /\ is_loaded' = FALSE
    /\ frame' = [frame EXCEPT ![t] = Leave([@ EXCEPT !.exc = e], Returned(None))]

LoadExcept(t, e) ==
    /\ is_loaded' = FALSE
    /\ frame' = [frame EXCEPT ![t] =
                   Leave([@ EXCEPT !.exc = e],
                         Raised(Error("Exception", "model load failed", CauseOf(e))))]

\* load_model: self.tokenizer = AutoTokenizer.from_pretrained(...)
LoadTokenizer(t) ==
    /\ frame[t].pc = "load_tokenizer"
    /\ loader_calls' = [loader_calls EXCEPT !.tokenizer = @ + 1]
    /\ \E ok \in BOOLEAN :
         IF ok
         THEN /\ tokenizer' = Obj("tokenizer", loader_calls.tokenizer + 1)
              /\ frame' = [frame EXCEPT ![t].pc = "load_model"]
              /\ UNCHANGED is_loaded
         ELSE /\ LoadExcept(t, Error("OSError", "tokenizer load", NoCause))
              /\ UNCHANGED tokenizer
    /\ UNCHANGED <<model, fsVars, pureVars, drawVars, hostVars>>

\* load_model: self.model = AutoModel.from_pretrained(...); on CUDA a failed
\* flash-attention load is retried with the default attention
LoadModel(t) ==
    /\ frame[t].pc = "load_model"
    /\ \E ok \in BOOLEAN, retry \in BOOLEAN :
         LET tries == IF device = "cuda" /\ ~ok THEN 2 ELSE 1
             got == ok \/ (device = "cuda" /\ retry)
         IN  /\ device # "cuda" => retry
             /\ loader_calls' = [loader_calls EXCEPT !.model = @ + tries]
             /\ IF got
                THEN /\ model' = Obj("model", loader_calls.model + tries)
                     /\ frame' = [frame EXCEPT ![t].pc = "load_eval"]
                     /\ UNCHANGED is_loaded
                ELSE /\ LoadExcept(t, Error("OSError", "model load", NoCause))
                     /\ UNCHANGED model
    /\ UNCHANGED <<tokenizer, fsVars, pureVars, drawVars, hostVars>>

\* load_model: self.model = self.model.eval()
LoadEval(t) ==
    /\ frame[t].pc = "load_eval"
    /\ \E ok \in BOOLEAN :
         IF ok
         THEN /\ frame' = [frame EXCEPT ![t].pc =
                             IF device # "cuda" THEN "load_convert" ELSE "load_to_device"]
              /\ UNCHANGED is_loaded
         ELSE LoadExcept(t, Error("RuntimeError", "eval", NoCause))
    /\ UNCHANGED <<model, tokenizer, loader_calls, fsVars, pureVars, drawVars, hostVars>>

\* load_model: convert_to_float32(self.model)
LoadConvert(t) ==
    /\ frame[t].pc = "load_convert"
    /\ \E ok \in BOOLEAN :
         IF ok
         THEN /\ frame' = [frame EXCEPT ![t].pc = "load_to_device"]
              /\ UNCHANGED is_loaded
         ELSE LoadExcept(t, Error("RuntimeError", "dtype conversion", NoCause))
    /\ UNCHANGED <<model, tokenizer, loader_calls, fsVars, pureVars, drawVars, hostVars>>

\* load_model: self.model = self.model.to(self.device); self._is_loaded = True
LoadToDevice(t) ==
    /\ frame[t].pc = "load_to_device"
    /\ \E ok \in BOOLEAN :
         IF ok
         THEN /\ is_loaded' = TRUE
              /\ frame' = [frame EXCEPT ![t] = Leave(@, Returned(None))]
         ELSE LoadExcept(t, Error("RuntimeError", "device move", NoCause))
    /\ UNCHANGED <<model, tokenizer, loader_calls, fsVars, pureVars, drawVars, hostVars>>

\* unload_model(), the whole method; on the CPU no cache is to be emptied
\* variant: `self._is_loaded = False` is missing
UnloadModel_KeepsFlag(t) ==
    /\ Idle(t)
    /\ IF is_loaded
       THEN /\ model' = None
            /\ tokenizer' = None
            /\ UNCHANGED is_loaded
       ELSE UNCHANGED <<model, tokenizer, is_loaded>>
    /\ frame' = [frame EXCEPT ![t] =
                   Leave([Enter("unload_model", "idle") EXCEPT !.log =
                            IF is_loaded THEN "model unloaded"
                            ELSE "model not loaded, nothing to unload"],
                         Returned(None))]
    /\ UNCHANGED <<loader_calls, fsVars, pureVars, drawVars, hostVars>>

\* variant: `if self._is_loaded` is missing
UnloadModel_Unguarded(t) ==
    /\ Idle(t)
    /\ model' = None
    /\ tokenizer' = None
    /\ is_loaded' = FALSE
    /\ frame' = [frame EXCEPT ![t] =
                   Leave([Enter("unload_model", "idle") EXCEPT !.log = "model unloaded"],
                         Returned(None))]
    /\ UNCHANGED <<loader_calls, fsVars, pureVars, drawVars, hostVars>>

UnloadModel(t) ==
    /\ Idle(t)
    /\ IF is_loaded
       THEN /\ model' = None
            /\ tokenizer' = None
            /\ is_loaded' = FALSE
       ELSE UNCHANGED <<model, tokenizer, is_loaded>>
    /\ frame' = [frame EXCEPT ![t] =
                   Leave([Enter("unload_model", "idle") EXCEPT !.log =
                            IF is_loaded THEN "model unloaded"
                            ELSE "model not loaded, nothing to unload"],
                         Returned(None))]
    /\ UNCHANGED <<loader_calls, fsVars, pureVars, drawVars, hostVars>>

\* ------------------------------------------------------------ OCREngine
Min(a, b) == IF a < b THEN a ELSE b

\* what one model.infer(...) call may do: raise, return None, return a text
Texts == {[i \in 1..n |-> "x"] : n \in 0..MaxTextLen}
ModelOutcomes ==
    {[kind |-> "raise", text |-> <<>>], [kind |-> "None", text |-> <<>>]}
    \cup {[kind |-> "str", text |-> s] : s \in Texts}

\* infer: raise RuntimeError("模型未加载，请先加载模型")
NotLoadedError == Error("RuntimeError", "model not loaded, load the model first", NoCause)

\* infer: except Exception as e: raise RuntimeError(f"OCR推理失败: {str(e)}")
\* variant: the except clause re-raises e itself
InferExcept_Reraises(e) == Raised(e)

InferExcept(e) == Raised(Error("RuntimeError", "OCR inference failed", CauseOf(e)))

\* infer_batch: results.append(("", 0.0, 0))
Placeholder == [text |-> <<>>, time |-> "0.0", tokens |-> 0]

\* infer_batch, the try around self.infer(...): results.append(result), or the
\* placeholder in its except clause; then the next round of the loop
\* variant: the except clause is missing, a failing item ends the batch
BatchCollect_Aborts(f, out) ==
    IF out.kind = "return"
    THEN [f EXCEPT !.pc = "batch_loop", !.idx = @ + 1, !.results = Append(@, out.value)]
    ELSE Leave(f, out)

BatchCollect(f, out) ==
    [f EXCEPT !.pc = "batch_loop", !.idx = @ + 1,
              !.results = Append(@, IF out.kind = "return"
                                    THEN out.value ELSE Placeholder)]

\* infer returned or raised `out`: to the caller, or to the loop of infer_batch
InferExit(f, out) ==
    LET g == [f EXCEPT !.outs = Append(@, [item |-> f.item, kind |-> out.kind,
                                           value |-> out.value,
                                           cleanup_error |-> f.cleanup_error])]
    IN  IF f.op = "infer_batch" THEN BatchCollect(g, out) ELSE Leave(g, out)

\* an exception e raised inside infer's outer try
InferFail(f, e) == InferExit([f EXCEPT !.exc = e], InferExcept(e))

\* the locals of a fresh infer call
InferLocals(f) ==
    [f EXCEPT !.pc = "infer_check", !.temp_image_path = 0, !.temp_output_dir = 0,
              !.result_text = Unbound, !.pending = NoRet, !.exc = NoError,
              !.cleanup_error = FALSE, !.rmtree_called = FALSE]

\* a caller invokes infer(image, prompt, ...)
CallInfer(t) ==
    /\ Idle(t)
    /\ tmp_seq + 2 <= MaxTmp
    /\ frame' = [frame EXCEPT ![t] = InferLocals(Enter("infer", "infer_check"))]
    /\ UNCHANGED <<mmVars, fsVars, pureVars, drawVars, hostVars>>

\* infer: if not self.model_manager.is_loaded(): raise RuntimeError(...)
\* variant: the check is missing
InferCheck_NoGate(t) ==
    /\ frame[t].pc = "infer_check"
    /\ frame' = [frame EXCEPT ![t].pc = "infer_fetch"]
    /\ UNCHANGED <<mmVars, fsVars, pureVars, drawVars, hostVars>>

InferCheck(t) ==
    /\ frame[t].pc = "infer_check"
    /\ frame' = [frame EXCEPT ![t] =
                   IF ~IsLoaded THEN InferExit(@, Raised(NotLoadedError))
                   ELSE [@ EXCEPT !.pc = "infer_fetch"]]
    /\ UNCHANGED <<mmVars, fsVars, pureVars, drawVars, hostVars>>

\* infer: model = get_model(); tokenizer = get_tokenizer()
\* variant: fetching takes the model out of the manager
InferFetch_TakesModel(t) ==
    /\ frame[t].pc = "infer_fetch"
    /\ frame' = [frame EXCEPT ![t] =
                   IF get_model.kind = "raise" THEN InferFail(@, get_model.err)
                   ELSE IF get_tokenizer.kind = "raise" THEN InferFail(@, get_tokenizer.err)
                   ELSE [@ EXCEPT !.pc = "infer_tmpfile"]]
    /\ model' = None
    /\ UNCHANGED <<is_loaded, tokenizer, loader_calls, fsVars, pureVars, drawVars, hostVars>>

InferFetch(t) ==
    /\ frame[t].pc = "infer_fetch"
    /\ frame' = [frame EXCEPT ![t] =
                   IF get_model.kind = "raise" THEN InferFail(@, get_model.err)
                   ELSE IF get_tokenizer.kind = "raise" THEN InferFail(@, get_tokenizer.err)
                   ELSE [@ EXCEPT !.pc = "infer_tmpfile"]]
    /\ UNCHANGED <<mmVars, fsVars, pureVars, drawVars, hostVars>>

\* infer: with tempfile.NamedTemporaryFile(suffix='.jpg', delete=False) as tmp_file
InferTmpFile(t) ==
    /\ frame[t].pc = "infer_tmpfile"
    /\ \E ok \in BOOLEAN :
         IF ok
         THEN /\ tmp_seq' = tmp_seq + 1
              /\ files' = files \cup {tmp_seq + 1}
              /\ frame' = [frame EXCEPT ![t].pc = "infer_save",
                                        ![t].temp_image_path = tmp_seq + 1,
                                        ![t].created = @ \cup {tmp_seq + 1}]
         ELSE /\ frame' = [frame EXCEPT ![t] =
                             InferFail(@, Error("OSError", "temporary file", NoCause))]
              /\ UNCHANGED <<tmp_seq, files>>
    /\ UNCHANGED <<mmVars, dirs, pureVars, drawVars, hostVars>>

\* infer: image.save(temp_image_path, format='JPEG', quality=95); leaving the
\* with block closes the file and, with delete=False, keeps it
InferSave(t) ==
    /\ frame[t].pc = "infer_save"
    /\ \E ok \in BOOLEAN :
         frame' = [frame EXCEPT ![t] =
                     IF ok THEN [@ EXCEPT !.pc = "infer_mkdtemp"]
                     ELSE InferFail(@, Error("OSError", "image save", NoCause))]
    /\ UNCHANGED <<mmVars, fsVars, pureVars, drawVars, hostVars>>

\* infer: temp_output_dir = tempfile.mkdtemp()
InferMkdtemp(t) ==
    /\ frame[t].pc = "infer_mkdtemp"
    /\ \E ok \in BOOLEAN :
         IF ok
         THEN /\ tmp_seq' = tmp_seq + 1
              /\ dirs' = dirs \cup {tmp_seq + 1}
              /\ frame' = [frame EXCEPT ![t].pc = "infer_model",
                                        ![t].temp_output_dir = tmp_seq + 1,
                                        ![t].created = @ \cup {tmp_seq + 1}]
         ELSE /\ frame' = [frame EXCEPT ![t] =
                             InferFail(@, Error("OSError", "mkdtemp", NoCause))]
              /\ UNCHANGED <<tmp_seq, dirs>>
    /\ UNCHANGED <<mmVars, files, pureVars, drawVars, hostVars>>

\* infer: num_tokens = len(result_text) // 4 if result_text else 0
\* variant: the estimate is rounded up
NumTokens_RoundsUp(text) == IF text # <<>> THEN (Len(text) + 3) \div 4 ELSE 0

NumTokens(text) == IF text # <<>> THEN Len(text) \div 4 ELSE 0

\* infer, the inner try after model.infer(...) came back with `out`: the raise
\* or return that the finally clause holds back
\* variant: None is not tested and counts as an empty text
ModelReturn_NoneAsEmpty(out) ==
    IF out.kind = "raise" THEN Raised(Error("ModelError", "model.infer", NoCause))
    ELSE Returned([text |-> out.text, time |-> "elapsed", tokens |-> NumTokens(out.text)])

ModelReturn(out) ==
    IF out.kind = "raise" THEN Raised(Error("ModelError", "model.infer", NoCause))
    ELSE IF out.kind = "None"
    THEN Raised(Error("RuntimeError", "model inference returned None", NoCause))
    ELSE Returned([text |-> out.text, time |-> "elapsed", tokens |-> NumTokens(out.text)])

\* infer: result_text = model.infer(...), up to the finally clause
InferModel(t) ==
    /\ frame[t].pc = "infer_model"
    /\ \E out \in ModelOutcomes :
         frame' = [frame EXCEPT ![t].pc = "infer_cleanup",
                                ![t].ncalls = @ + 1,
                                ![t].result_text =
                                   IF out.kind = "raise" THEN Unbound ELSE out,
                                ![t].pending = ModelReturn(out)]
    /\ UNCHANGED <<mmVars, fsVars, pureVars, drawVars, hostVars>>

\* infer, the finally clause: os.remove and shutil.rmtree, each behind
\* os.path.exists, in one try whose except clause logs. rm_ok, rmtree_ok: the
\* delete succeeds when it is made. The temporary directory afterwards, and
\* whether the except clause ran
\* variant: the cleanup sits at the end of the try body, not in finally
Cleanup_OnReturnOnly(f, rm_ok, rmtree_ok) ==
    LET ran == f.pending.kind = "return"
        file_there == f.temp_image_path \in files
        rm_raises == file_there /\ ~rm_ok
        dir_there == ~rm_raises /\ f.temp_output_dir \in dirs
        rmtree_raises == dir_there /\ ~rmtree_ok
    IN  [files |-> IF ran /\ file_there /\ rm_ok THEN files \ {f.temp_image_path} ELSE files,
         dirs |-> IF ran /\ dir_there /\ rmtree_ok THEN dirs \ {f.temp_output_dir} ELSE dirs,
         cleanup_error |-> ran /\ (rm_raises \/ rmtree_raises),
         rmtree_called |-> ran /\ dir_there]

Cleanup(f, rm_ok, rmtree_ok) ==
    LET file_there == f.temp_image_path \in files
        rm_raises == file_there /\ ~rm_ok
        dir_there == ~rm_raises /\ f.temp_output_dir \in dirs
        rmtree_raises == dir_there /\ ~rmtree_ok
    IN  [files |-> IF file_there /\ rm_ok THEN files \ {f.temp_image_path} ELSE files,
         dirs |-> IF dir_there /\ rmtree_ok THEN dirs \ {f.temp_output_dir} ELSE dirs,
         cleanup_error |-> rm_raises \/ rmtree_raises,
         rmtree_called |-> dir_there]

\* infer, after the finally clause: the held-back return or raise goes on,
\* the raise into the outer except clause
\* variant: the deletes are not wrapped in their own try
AfterFinally_CleanupErrorEscapes(f) ==
    IF f.cleanup_error THEN InferFail(f, Error("OSError", "cleanup", NoCause))
    ELSE IF f.pending.kind = "return" THEN InferExit(f, f.pending)
    ELSE InferFail(f, f.pending.err)

AfterFinally(f) ==
    IF f.pending.kind = "return" THEN InferExit(f, f.pending)
    ELSE InferFail(f, f.pending.err)

InferCleanup(t) ==
    /\ frame[t].pc = "infer_cleanup"
    /\ \E rm_ok \in BOOLEAN, rmtree_ok \in BOOLEAN :
         LET c == Cleanup(frame[t], rm_ok, rmtree_ok)
         IN  /\ files' = c.files
             /\ dirs' = c.dirs
             /\ frame' = [frame EXCEPT ![t] =
                            AfterFinally([@ EXCEPT !.cleanup_error = c.cleanup_error,
                                                   !.rmtree_called = c.rmtree_called])]
    /\ UNCHANGED <<mmVars, tmp_seq, pureVars, drawVars, hostVars>>

\* a caller invokes infer_batch(images, prompts, ...)
CallInferBatch(t) ==
    /\ Idle(t)
    /\ \E ni \in 0..MaxBatch, np \in 0..MaxBatch :
         /\ tmp_seq + 2 * Min(ni, np) <= MaxTmp
         /\ frame' = [frame EXCEPT ![t] =
                        [Enter("infer_batch", "batch_check")
                           EXCEPT !.images = ni, !.prompts = np]]
    /\ UNCHANGED <<mmVars, fsVars, pureVars, drawVars, hostVars>>

\* infer_batch: if len(images) != len(prompts)
\* variant: only too many images are rejected
LengthsDiffer_OnlyMore(ni, np) == ni > np

LengthsDiffer(ni, np) == ni # np

\* infer_batch: ... raise ValueError("图像数量和Prompt数量必须相同")
BatchCheck(t) ==
    /\ frame[t].pc = "batch_check"
    /\ frame' = [frame EXCEPT ![t] =
                   IF LengthsDiffer(@.images, @.prompts)
                   THEN Leave(@, Raised(Error("ValueError",
                                              "image and prompt counts differ", NoCause)))
                   ELSE [@ EXCEPT !.pc = "batch_loop"]]
    /\ UNCHANGED <<mmVars, fsVars, pureVars, drawVars, hostVars>>

\* infer_batch: for idx, (image, prompt) in enumerate(zip(images, prompts), 1):
\* the next self.infer(...), or return results
BatchLoop(t) ==
    /\ frame[t].pc = "batch_loop"
    /\ frame' = [frame EXCEPT ![t] =
                   IF @.idx < Min(@.images, @.prompts)
                   THEN InferLocals([frame[t] EXCEPT !.item = frame[t].idx + 1])
                   ELSE Leave(@, Returned(@.results))]
    /\ UNCHANGED <<mmVars, fsVars, pureVars, drawVars, hostVars>>

Next ==
    \/ CallLoadModel(Main)
    \/ LoadCheck(Main)
    \/ LoadTokenizer(Main)
    \/ LoadModel(Main)
    \/ LoadEval(Main)
    \/ LoadConvert(Main)
    \/ LoadToDevice(Main)
    \/ UnloadModel(Main)
    \/ CallInfer(Main)
    \/ InferCheck(Main)
    \/ InferFetch(Main)
    \/ InferTmpFile(Main)
    \/ InferSave(Main)
    \/ InferMkdtemp(Main)
    \/ InferModel(Main)
    \/ InferCleanup(Main)
    \/ CallInferBatch(Main)
    \/ BatchCheck(Main)
    \/ BatchLoop(Main)

Spec == Init /\ [][Next]_vars

\* ------------------------------------------------------------- properties
\* the top-level infer call of t has returned or raised
InferDone(t) == frame[t].op = "infer" /\ Idle(t)

\* an infer call of t, top-level or from infer_batch, has just returned or raised
InferExited(t) ==
    \/ InferDone(t)
    \/ frame[t].op = "infer_batch" /\ frame[t].pc = "batch_loop" /\ frame[t].idx > 0

LoadDone(t) == frame[t].op = "load_model" /\ Idle(t)

InferFailed(e) == e.type = "RuntimeError" /\ e.msg = "OCR inference failed"

\* C1: once staging completed and the model call came back (with a text, with
\* None or with an exception) and no delete failed, neither the temporary image
\* file nor the temporary output directory of the call exists when infer has
\* returned or raised.
C1_StagedResourcesReleased ==
    \A t \in Threads :
        LET f == frame[t]
        IN  InferExited(t) /\ f.pending.kind # "none" /\ ~f.cleanup_error
            => /\ f.temp_image_path # 0 /\ f.temp_image_path \notin files
               /\ f.temp_output_dir # 0 /\ f.temp_output_dir \notin dirs

C1_Witness ==
    \E t \in Threads :
        /\ InferDone(t) /\ frame[t].pending.kind = "raise" /\ ~frame[t].cleanup_error
        /\ frame[t].temp_output_dir \in frame[t].created \ dirs

\* C2: when staging fails after the temporary image file was created (image.save
\* or mkdtemp raises), the file is gone when the error reaches the caller.
C2_StagingFailureReleases ==
    \A t \in Threads :
        LET f == frame[t]
        IN  InferExited(t) /\ f.exc.type # "none" /\ f.pending.kind = "none"
            => f.created \cap (files \cup dirs) = {}

\* C3: infer called on a handle that is not Ready raises the not-loaded error,
\* never calls the model and creates no temporary file or directory.
C3_NotLoadedRejected ==
    \A t \in Threads :
        LET f == frame[t]
        IN  InferDone(t) /\ ~f.old.is_loaded
            => /\ f.ret.kind = "raise" /\ f.ret.err = NotLoadedError
               /\ f.ncalls = 0
               /\ f.created = {} /\ f.temp_image_path = 0 /\ f.temp_output_dir = 0

C3_Witness ==
    \E t \in Threads :
        InferDone(t) /\ ~frame[t].old.is_loaded /\ frame[t].ret.kind = "raise"

\* C4: when the model returns None, infer raises the inference-failed error;
\* it never returns a result tuple for that call.
C4_NoneIsFailure ==
    \A t \in Threads :
        LET f == frame[t]
        IN  InferDone(t) /\ f.result_text.kind = "None"
            => f.ret.kind = "raise" /\ InferFailed(f.ret.err)

C4_Witness ==
    \E t \in Threads :
        InferDone(t) /\ frame[t].result_text.kind = "None" /\ frame[t].ret.kind = "raise"

\* C5: once the loaded check has passed, every failure inside infer reaches the
\* caller as one inference-failed error that carries the exception it wraps; the
\* exception itself never escapes.
C5_OneWrappedError ==
    \A t \in Threads :
        LET f == frame[t]
        IN  InferDone(t) /\ f.old.is_loaded
            => /\ f.exc.type # "none" <=> f.ret.kind = "raise"
               /\ f.ret.kind = "raise"
                  => InferFailed(f.ret.err) /\ f.ret.err.cause = CauseOf(f.exc)

C5_Witness ==
    \E t \in Threads :
        /\ InferDone(t) /\ frame[t].old.is_loaded
        /\ frame[t].exc.type = "ModelError" /\ frame[t].ret.kind = "raise"

\* C6: a failing delete in the cleanup does not change the outcome: the result
\* tuple is still returned, a failed call still raises the inference-failed
\* error for its own failure.
C6_CleanupFailureSwallowed ==
    \A t \in Threads :
        LET f == frame[t]
        IN  InferDone(t) /\ f.cleanup_error
            => /\ f.pending.kind = "return"
                  => f.ret.kind = "return" /\ f.ret.value = f.pending.value
               /\ f.pending.kind = "raise"
                  => /\ f.ret.kind = "raise" /\ InferFailed(f.ret.err)
                     /\ f.ret.err.cause = CauseOf(f.pending.err)

C6_Witness ==
    \E t \in Threads :
        /\ InferDone(t) /\ frame[t].cleanup_error
        /\ frame[t].pending.kind = "return" /\ frame[t].ret.kind = "return"

\* C7: load_model on a Ready handle returns without error, invokes no loader
\* and leaves the flag, the model and the tokenizer as they were.
C7_LoadWhileReadyNoOp ==
    \A t \in Threads :
        LoadDone(t) /\ frame[t].old.is_loaded
        => frame[t].ret.kind = "return" /\ Handle = frame[t].old

C7_Witness ==
    \E t \in Threads :
        LoadDone(t) /\ frame[t].old.is_loaded /\ frame[t].ret.kind = "return"

\* C8: when a step of load_model fails, the handle is not loaded afterwards,
\* the caller gets the load error, and the next load_model call, finding the
\* flag false, goes on to the tokenizer load.
C8_FailedLoadUnloaded ==
    /\ [](\A t \in Threads :
            LET f == frame[t]
            IN  LoadDone(t) /\ f.exc.type # "none"
                => /\ ~IsLoaded
                   /\ f.ret.kind = "raise"
                   /\ f.ret.err.type = "Exception" /\ f.ret.err.msg = "model load failed"
                   /\ f.ret.err.cause = CauseOf(f.exc))
    /\ [][\A t \in Threads :
            frame[t].pc = "load_check" /\ ~is_loaded /\ frame'[t] # frame[t]
            => frame'[t].pc = "load_tokenizer"]_vars

C8_Witness ==
    \E t \in Threads :
        LoadDone(t) /\ frame[t].exc.msg = "device move" /\ ~is_loaded

\* C9: unload_model on a Ready handle leaves it unloaded with model and
\* tokenizer None, so that get_model and get_tokenizer raise; infer on an
\* unloaded handle raises the not-loaded error; and only the last step of a
\* load_model call makes the handle Ready again.
C9_UnloadReleases ==
    /\ [](\A t \in Threads :
            frame[t].op = "unload_model" /\ Idle(t) /\ frame[t].old.is_loaded
            => /\ ~IsLoaded /\ model = None /\ tokenizer = None
               /\ get_model.kind = "raise" /\ get_tokenizer.kind = "raise")
    /\ [](\A t \in Threads :
            InferDone(t) /\ ~frame[t].old.is_loaded => frame[t].ret.err = NotLoadedError)
    /\ [][~is_loaded /\ is_loaded'
          => \E t \in Threads : frame[t].pc = "load_to_device" /\ LoadDone(t)']_vars

C9_Witness ==
    \E t \in Threads :
        frame[t].op = "unload_model" /\ Idle(t) /\ frame[t].old.is_loaded /\ ~is_loaded

\* C10: infer_batch with lists of different lengths raises the ValueError
\* before any item is processed: no model call, no temporary file or directory.
C10_BatchMismatchRejected ==
    \A t \in Threads :
        LET f == frame[t]
        IN  f.op = "infer_batch" /\ Idle(t) /\ f.images # f.prompts
            => /\ f.ret.kind = "raise" /\ f.ret.err.type = "ValueError"
               /\ f.ncalls = 0 /\ f.idx = 0 /\ f.created = {}

C10_Witness ==
    \E t \in Threads :
        /\ frame[t].op = "infer_batch" /\ Idle(t) /\ frame[t].old.is_loaded
        /\ frame[t].images > 0 /\ frame[t].prompts > frame[t].images
        /\ frame[t].ret.kind = "raise"

BatchDone(t) == frame[t].op = "infer_batch" /\ Idle(t)

\* C11: for lists of equal length infer_batch returns one result per item, in
\* the order of the items: the tuple infer returned for item i, or the
\* placeholder when infer raised for it; every item is processed, whatever
\* happened to the items before it.
C11_BatchResultsInOrder ==
    \A t \in Threads :
        LET f == frame[t]
        IN  BatchDone(t) /\ f.images = f.prompts
            => /\ f.ret.kind = "return"
               /\ Len(f.ret.value) = f.images /\ Len(f.outs) = f.images
               /\ \A i \in 1..Len(f.outs) :
                    /\ f.outs[i].item = i
                    /\ IF f.outs[i].kind = "return"
                       THEN f.ret.value[i] = f.outs[i].value
                       ELSE f.ret.value[i] = Placeholder

C11_Witness ==
    \E t \in Threads :
        /\ BatchDone(t) /\ frame[t].images = 2 /\ frame[t].prompts = 2
        /\ frame[t].ret.kind = "return" /\ Len(frame[t].outs) = 2
        /\ frame[t].outs[1].kind = "raise" /\ frame[t].outs[2].kind = "return"
        /\ Len(frame[t].outs[2].value.text) > 0

\* no delete of the call has failed so far
DeletesSucceeded(f) == \A i \in DOMAIN f.outs : ~f.outs[i].cleanup_error

\* C12: within one infer_batch call whose deletes all succeed, the temporary
\* names of the call that exist are those of the item in progress, and none
\* exists when the loop goes on to the next item.
C12_OneRunAtATime ==
    \A t \in Threads :
        LET f == frame[t]
            left == f.created \cap (files \cup dirs)
        IN  f.op = "infer_batch" /\ DeletesSucceeded(f)
            => /\ left \subseteq {f.temp_image_path, f.temp_output_dir}
               /\ f.pc = "batch_loop" /\ f.idx < Min(f.images, f.prompts) => left = {}

\* C13: the token count of a successful infer call is floor(len(text) / 4) for
\* the text it returns, which is the text the model returned; 0 for "".
C13_TokenEstimate ==
    \A t \in Threads :
        LET f == frame[t]
        IN  InferDone(t) /\ f.ret.kind = "return"
            => /\ f.result_text.kind = "str" /\ f.ret.value.text = f.result_text.text
               /\ 4 * f.ret.value.tokens <= Len(f.ret.value.text)
               /\ Len(f.ret.value.text) < 4 * (f.ret.value.tokens + 1)
               /\ f.ret.value.text = <<>> => f.ret.value.tokens = 0

C13_Witness ==
    \E t \in Threads :
        /\ InferDone(t) /\ frame[t].ret.kind = "return"
        /\ Len(frame[t].ret.value.text) = 5 /\ frame[t].ret.value.tokens = 1

---------------------------------------------------------------------------
\* ImageProcessor.get_resolution_params (image_processor.py).
\* A Python str is a sequence of one-character strings.

Tiny == <<"T", "i", "n", "y">>
Small == <<"S", "m", "a", "l", "l">>
Base == <<"B", "a", "s", "e">>
Large == <<"L", "a", "r", "g", "e">>
Gundam == <<"G", "u", "n", "d", "a", "m">>

\* mode_mapping, in the insertion order that .items() iterates
mode_mapping ==
    << [key |-> Tiny,   params |-> <<512, 512, FALSE>>],
       [key |-> Small,  params |-> <<640, 640, FALSE>>],
       [key |-> Base,   params |-> <<1024, 1024, FALSE>>],
       [key |-> Large,  params |-> <<1280, 1280, FALSE>>],
       [key |-> Gundam, params |-> <<1024, 640, TRUE>>] >>

\* the positions at which sub occurs in s
Occurrences(sub, s) ==
    {i \in 1..(Len(s) - Len(sub) + 1) : SubSeq(s, i, i + Len(sub) - 1) = sub}

\* str.lower() on the letters the labels are made of
Lower(s) ==
    [i \in DOMAIN s |->
        CASE s[i] = "T" -> "t" [] s[i] = "S" -> "s" [] s[i] = "B" -> "b"
          [] s[i] = "L" -> "l" [] s[i] = "G" -> "g" [] OTHER -> s[i]]

\* `key in mode`
KeyIn_IgnoreCase(key, m) == Occurrences(Lower(key), Lower(m)) # {}

KeyIn(key, m) == Occurrences(key, m) # {}

\* mode_mapping["Base"]
MappingOf(key) ==
    (CHOOSE e \in {mode_mapping[i] : i \in DOMAIN mode_mapping} : e.key = key).params

\* the for loop from entry i on, then the fallback
RECURSIVE ScanMapping(_, _)
ScanMapping(m, i) ==
    IF i > Len(mode_mapping) THEN MappingOf(Base)
    ELSE IF KeyIn(mode_mapping[i].key, m) THEN mode_mapping[i].params
    ELSE ScanMapping(m, i + 1)

\* a variant that returns the entry of the keyword that occurs leftmost in mode
get_resolution_params_Leftmost(m) ==
    LET hits == {i \in DOMAIN mode_mapping : KeyIn(mode_mapping[i].key, m)}
        At(i) == CHOOSE p \in Occurrences(mode_mapping[i].key, m) :
                     \A q \in Occurrences(mode_mapping[i].key, m) : p <= q
    IN  IF hits = {} THEN MappingOf(Base)
        ELSE mode_mapping[CHOOSE i \in hits : \A j \in hits : At(i) <= At(j)].params

get_resolution_params(m) == ScanMapping(m, 1)

\* the labels: up to MaxPieces pieces, among them the keywords, a keyword in
\* another case, halves of a keyword and other text
MaxPieces == 3
Pieces == {Tiny, Small, Base, Large, Gundam,
           <<"t", "i", "n", "y">>, <<"T", "i">>, <<"n", "y">>, <<" ">>}

RECURSIVE Join(_)
Join(ps) == IF ps = <<>> THEN <<>> ELSE Head(ps) \o Join(Tail(ps))

Modes == {Join(ps) : ps \in UNION {[1..n -> Pieces] : n \in 0..MaxPieces}}

InitResolve ==
    /\ InitHandle /\ NoParse /\ NoDraw /\ NoRequests
    /\ mode \in Modes
    /\ params = NoParams

\* one call get_resolution_params(mode)
Resolve ==
    /\ params = NoParams
    /\ params' = get_resolution_params(mode)
    /\ UNCHANGED <<mmVars, fsVars, frame, mode, parts, raw_text, parsed, drawVars, hostVars>>

NextResolve == Resolve

SpecResolve == InitResolve /\ [][NextResolve]_vars

Resolved == params # NoParams

\* the keywords and their tuples, in the fixed order
KeywordTable ==
    << <<Tiny, <<512, 512, FALSE>> >>, <<Small, <<640, 640, FALSE>> >>,
       <<Base, <<1024, 1024, FALSE>> >>, <<Large, <<1280, 1280, FALSE>> >>,
       <<Gundam, <<1024, 640, TRUE>> >> >>

\* the keywords (by rank in the fixed order) that mode contains, case-sensitively
KeywordsIn(m) == {i \in DOMAIN KeywordTable : Occurrences(KeywordTable[i][1], m) # {}}

\* C14: a label that contains one of the five keywords gets that keyword's
\* tuple, a label that contains none gets the Base tuple, and every label gets
\* a tuple (the call returns for any string).
C14_KeywordTuple ==
    Resolved =>
        /\ \A i \in DOMAIN KeywordTable :
               KeywordsIn(mode) = {i} => params = KeywordTable[i][2]
        /\ KeywordsIn(mode) = {} => params = <<1024, 1024, FALSE>>
        /\ params \in {KeywordTable[i][2] : i \in DOMAIN KeywordTable}

\* a label with "tiny" in lower case and the keyword Gundam gets Gundam's tuple
C14_Witness ==
    /\ Resolved /\ KeywordsIn(mode) = {5}
    /\ Occurrences(<<"t", "i", "n", "y">>, mode) # {}
    /\ params = <<1024, 640, TRUE>>

\* C15: a label with several keywords gets the tuple of the one that comes
\* first in the order Tiny, Small, Base, Large, Gundam, wherever they occur.
C15_FirstInFixedOrder ==
    Resolved /\ Cardinality(KeywordsIn(mode)) >= 2 =>
        \E i \in KeywordsIn(mode) :
            /\ \A j \in KeywordsIn(mode) : i <= j
            /\ params = KeywordTable[i][2]

\* "Gundam" occurs before "Tiny" in the label and Tiny's tuple is returned
C15_Witness ==
    /\ Resolved /\ KeywordsIn(mode) = {1, 5}
    /\ \E p \in Occurrences(Gundam, mode) : \A q \in Occurrences(Tiny, mode) : p < q
    /\ params = <<512, 512, FALSE>>

---------------------------------------------------------------------------
\* ResultProcessor (result_processor.py).
\* A raw text is a sequence of tokens: a tag literal, a character of plain
\* text, or the source text of one Python expression between the det tags.

RefOpen == "<|ref|>"
RefClose == "<|/ref|>"
DetOpen == "<|det|>"
DetClose == "<|/det|>"
Grounding == "<|grounding|>"
Newline == "\n"
Whitespace == {" ", Newline}

NoMatch == [found |-> FALSE]

\* PATTERN tried at position i: <|ref|>(.*?)<|/ref|><|det|>(.*?)<|/det|>.
\* The lazy groups stop at the first closing tags, and "." is compiled
\* without re.DOTALL, so neither group extends over a line break.
MatchAt(s, i) ==
    IF s[i] # RefOpen THEN NoMatch
    ELSE
    LET js == {j \in (i + 1)..(Len(s) - 1) : s[j] = RefClose /\ s[j + 1] = DetOpen}
    IN  IF js = {} THEN NoMatch
        ELSE
        LET j == CHOOSE x \in js : \A y \in js : x <= y
            ks == {k \in (j + 2)..Len(s) : s[k] = DetClose}
        IN  IF ks = {} THEN NoMatch
            ELSE
            LET k == CHOOSE x \in ks : \A y \in ks : x <= y
            IN  IF \E q \in (i + 1)..(k - 1) : s[q] = Newline THEN NoMatch
                ELSE [found |-> TRUE, stop |-> k,
                      text |-> SubSeq(s, i + 1, j - 1),
                      coords |-> SubSeq(s, j + 2, k - 1)]

\* re.findall(PATTERN, raw_text): the non-overlapping matches, left to right
RECURSIVE FindAll(_, _)
FindAll(s, i) ==
    IF i > Len(s) THEN <<>>
    ELSE LET m == MatchAt(s, i)
         IN  IF m.found THEN <<m>> \o FindAll(s, m.stop + 1) ELSE FindAll(s, i + 1)

\* str.strip()
RECURSIVE Strip(_)
Strip(s) ==
    IF s = <<>> THEN s
    ELSE IF Head(s) \in Whitespace THEN Strip(Tail(s))
    ELSE IF s[Len(s)] \in Whitespace THEN Strip(SubSeq(s, 1, Len(s) - 1))
    ELSE s

\* Python values: int, str (a sequence of characters) and list
PyInt(n) == [ty |-> "int", v |-> n]
PyStr(cs) == [ty |-> "str", v |-> cs]
PyList(xs) == [ty |-> "list", v |-> xs]
PyPoint(x, y) == PyList(<<PyInt(x), PyInt(y)>>)

\* the expressions that stand between the det tags
TwoPoints == "[[0,50],[999,100]]"
ThreePoints == "[[1,2],[3,4],[5,6]]"
ThreeComponents == "[[1,2,3],[4,5]]"
StrComponent == "[[1,'a'],[3,4]]"
NotAList == "7"
BadName == "bad"
BeyondRange == "[[1000,-5],[3,4]]"
SysExit == "__import__('sys').exit()"

\* eval(coords_clean): the value of the expression, or the exception it raises.
\* SystemExit derives from BaseException, the others from Exception.
Evaluated(v) == [kind |-> "value", value |-> v, exc |-> "none"]
EvalRaises(e) == [kind |-> "raise", value |-> PyInt(0), exc |-> e]
Eval(src) ==
    IF Len(src) # 1 THEN EvalRaises("SyntaxError")
    ELSE CASE src[1] = TwoPoints -> Evaluated(PyList(<<PyPoint(0, 50), PyPoint(999, 100)>>))
           [] src[1] = ThreePoints ->
                  Evaluated(PyList(<<PyPoint(1, 2), PyPoint(3, 4), PyPoint(5, 6)>>))
           [] src[1] = ThreeComponents ->
                  Evaluated(PyList(<<PyList(<<PyInt(1), PyInt(2), PyInt(3)>>), PyPoint(4, 5)>>))
           [] src[1] = StrComponent ->
                  Evaluated(PyList(<<PyList(<<PyInt(1), PyStr(<<"a">>)>>), PyPoint(3, 4)>>))
           [] src[1] = NotAList -> Evaluated(PyInt(7))
           [] src[1] = BeyondRange -> Evaluated(PyList(<<PyPoint(1000, -5), PyPoint(3, 4)>>))
           [] src[1] = SysExit -> EvalRaises("SystemExit")
           [] src[1] \in {RefOpen, RefClose, DetOpen, Grounding} -> EvalRaises("SyntaxError")
           [] OTHER -> EvalRaises("NameError")

\* len(x) is defined, x[i] and the unpacking "a, b = x" work on a list or str
Sized(x) == x.ty \in {"list", "str"}
\* x / 999.0, as the fraction it is; a str operand has no division
Normalize(x) == [num |-> x.v, den |-> 999]

Skipped == [kind |-> "skip", exc |-> "none", box |-> <<>>]
Escaped(e) == [kind |-> "raise", exc |-> e, box |-> <<>>]
Boxed(b) == [kind |-> "box", exc |-> "none", box |-> <<b>>]

\* the body of the for loop for one match: a box, nothing (the exception is
\* caught, or the list has not two entries), or an exception that
\* `except Exception` does not catch
BoxOf(m) ==
    LET e == Eval(Strip(m.coords))
    IN  IF e.kind = "raise"
        THEN IF e.exc = "SystemExit" THEN Escaped(e.exc) ELSE Skipped
        ELSE IF ~Sized(e.value) THEN Skipped
        ELSE IF Len(e.value.v) # 2 THEN Skipped
        ELSE LET p1 == e.value.v[1]
                 p2 == e.value.v[2]
             IN  IF ~Sized(p1) \/ ~Sized(p2) THEN Skipped
                 ELSE IF Len(p1.v) # 2 \/ Len(p2.v) # 2 THEN Skipped
                 ELSE IF p1.ty = "str" \/ p2.ty = "str" THEN Skipped
                 ELSE IF \E c \in 1..2 : p1.v[c].ty # "int" \/ p2.v[c].ty # "int"
                      THEN Skipped
                 ELSE Boxed([text |-> m.text,
                             bbox |-> <<Normalize(p1.v[1]), Normalize(p1.v[2]),
                                        Normalize(p2.v[1]), Normalize(p2.v[2])>>])

\* the for loop over the matches, from match i on with the boxes so far
RECURSIVE ExtractLoop(_, _, _)
ExtractLoop(matches, i, boxes) ==
    IF i > Len(matches) THEN Returned(boxes)
    ELSE LET b == BoxOf(matches[i])
         IN  IF b.kind = "raise" THEN Raised(Error(b.exc, "none", NoCause))
             ELSE ExtractLoop(matches, i + 1, boxes \o b.box)

extract_bounding_boxes(text) == ExtractLoop(FindAll(text, 1), 1, <<>>)

\* re.sub(pattern, r'\1', raw_text): every match replaced by its first group
\* variant: only a match whose coordinates give a box is replaced
RECURSIVE Sub_ParsedOnly(_, _)
Sub_ParsedOnly(s, i) ==
    IF i > Len(s) THEN <<>>
    ELSE LET m == MatchAt(s, i)
         IN  IF m.found /\ BoxOf(m).kind = "box"
             THEN m.text \o Sub_ParsedOnly(s, m.stop + 1)
             ELSE <<s[i]>> \o Sub_ParsedOnly(s, i + 1)

RECURSIVE Sub(_, _)
Sub(s, i) ==
    IF i > Len(s) THEN <<>>
    ELSE LET m == MatchAt(s, i)
         IN  IF m.found THEN m.text \o Sub(s, m.stop + 1) ELSE <<s[i]>> \o Sub(s, i + 1)

NotGrounding(tok) == tok # Grounding

clean_markdown(text) == Strip(SelectSeq(Sub(text, 1), NotGrounding))

Contains(s, tok) == \E i \in DOMAIN s : s[i] = tok

\* "<|ref|>" in raw_text and "<|det|>" in raw_text
HasGrounding(text) == Contains(text, RefOpen) /\ Contains(text, DetOpen)

\* parse_result: the dict display evaluates its values in order
parse_result(text) ==
    LET clean == clean_markdown(text)
        ex == extract_bounding_boxes(text)
    IN  IF ex.kind = "raise" THEN ex
        ELSE Returned([clean_text |-> clean, bounding_boxes |-> ex.value,
                       has_grounding |-> HasGrounding(text)])

\* The raw texts: up to MaxParts parts, each a character of plain text, a tag
\* on its own, or a span <|ref|>LABEL<|/ref|><|det|>COORDS<|/det|>.
MaxParts == 2
PlainTokens == {"a", " ", Newline}
Tags == {RefOpen, RefClose, DetOpen, DetClose, Grounding}
Labels == {<<"a">>, <<"b">>, <<"a", Newline, "b">>}
CoordTexts == {TwoPoints, ThreePoints, ThreeComponents, StrComponent, NotAList,
               BadName, BeyondRange, SysExit}

Plain(tok) == [kind |-> "plain", label |-> <<>>, coords |-> "", tokens |-> <<tok>>]
Tag(tok) == [kind |-> "tag", label |-> <<>>, coords |-> "", tokens |-> <<tok>>]
Span(label, coords) ==
    [kind |-> "span", label |-> label, coords |-> coords,
     tokens |-> <<RefOpen>> \o label \o <<RefClose, DetOpen, coords, DetClose>>]

Parts ==
    {Plain(tok) : tok \in PlainTokens} \cup {Tag(tok) : tok \in Tags}
    \cup {Span(l, c) : l \in Labels, c \in CoordTexts}

RECURSIVE TextOf(_)
TextOf(ps) == IF ps = <<>> THEN <<>> ELSE Head(ps).tokens \o TextOf(Tail(ps))

InitParse ==
    /\ InitHandle /\ NoResolve /\ NoDraw /\ NoRequests
    /\ parts \in UNION {[1..n -> Parts] : n \in 0..MaxParts}
    /\ raw_text = TextOf(parts)
    /\ parsed = NoParsed

\* one call parse_result(raw_text)
ParseResult ==
    /\ parsed = NoParsed
    /\ parsed' = parse_result(raw_text)
    /\ UNCHANGED <<mmVars, fsVars, frame, mode, params, parts, raw_text, drawVars,
                   hostVars>>

NextParse == ParseResult

SpecParse == InitParse /\ [][NextParse]_vars

Parsed == parsed # NoParsed

\* the span grammar: a well-formed span has the two-point list of integers
\* in [0, 999] as its coordinates, whatever its label
WellFormed(p) == p.kind = "span" /\ p.coords = TwoPoints
\* not a list, not two points, a point without two components, a component
\* that is no number
Malformed(p) ==
    p.kind = "span"
    /\ p.coords \in {ThreePoints, ThreeComponents, StrComponent, NotAList, BadName, SysExit}
\* the four integers written in TwoPoints
TwoPointsComponents == <<0, 50, 999, 100>>

PlainAndWellFormed(ps) == \A i \in DOMAIN ps : ps[i].kind = "plain" \/ WellFormed(ps[i])

\* one box per well-formed span, in source order
RECURSIVE BoxesOfSpans(_)
BoxesOfSpans(ps) ==
    IF ps = <<>> THEN <<>>
    ELSE (IF WellFormed(Head(ps))
          THEN << [text |-> Head(ps).label,
                   bbox |-> [c \in 1..4 |-> [num |-> TwoPointsComponents[c], den |-> 999]]] >>
          ELSE <<>>) \o BoxesOfSpans(Tail(ps))

\* C16: a raw text of plain text and N well-formed spans yields exactly N
\* boxes, in source order, box i with the label of span i and its four
\* coordinates over 999, identical spans each with their own box.
C16_OneBoxPerSpan ==
    Parsed /\ PlainAndWellFormed(parts)
    => parsed.kind = "return" /\ parsed.value.bounding_boxes = BoxesOfSpans(parts)

WithoutMalformed(ps) == SelectSeq(ps, LAMBDA p : ~Malformed(p))

\* C17: extraction returns, and what it returns is what it returns for the
\* same text without the spans whose coordinate list is malformed.
C17_MalformedSkipped ==
    Parsed
    => /\ parsed.kind = "return"
       /\ extract_bounding_boxes(TextOf(WithoutMalformed(parts))).kind = "return"
       /\ parsed.value.bounding_boxes
              = extract_bounding_boxes(TextOf(WithoutMalformed(parts))).value

\* C18: every coordinate of every box that is returned lies in [0, 1].
C18_CoordinatesInUnitRange ==
    Parsed /\ parsed.kind = "return"
    => \A i \in DOMAIN parsed.value.bounding_boxes :
           \A c \in 1..4 :
               LET x == parsed.value.bounding_boxes[i].bbox[c]
               IN  0 <= x.num /\ x.num <= x.den

BothTags == Contains(raw_text, RefOpen) /\ Contains(raw_text, DetOpen)
\* no span of the text has coordinates that extraction turns into a box
NoParseableSpan ==
    \A i \in DOMAIN parts :
        parts[i].kind = "span" => parts[i].coords \notin {TwoPoints, BeyondRange}

\* C19: has_grounding is true exactly if the raw text has both <|ref|> and
\* <|det|>; a text with both tags and no parseable span gives has_grounding
\* true and no boxes; the empty text gives false, no boxes, empty clean text.
C19_HasGroundingIffBothTags ==
    Parsed
    => /\ parsed.kind = "return" => (parsed.value.has_grounding <=> BothTags)
       /\ BothTags /\ NoParseableSpan
          => /\ parsed.kind = "return"
             /\ parsed.value.has_grounding
             /\ parsed.value.bounding_boxes = <<>>
       /\ raw_text = <<>>
          => /\ parsed.kind = "return"
             /\ ~parsed.value.has_grounding
             /\ parsed.value.bounding_boxes = <<>>
             /\ parsed.value.clean_text = <<>>

DistinctLabels(ps) ==
    \A i, j \in DOMAIN ps :
        ps[i].kind = "span" /\ ps[j].kind = "span" /\ i # j => ps[i].label # ps[j].label

\* the text with every span replaced by its label
RECURSIVE LabelsAndText(_)
LabelsAndText(ps) ==
    IF ps = <<>> THEN <<>>
    ELSE (IF Head(ps).kind = "span" THEN Head(ps).label ELSE Head(ps).tokens)
         \o LabelsAndText(Tail(ps))

\* C20: the clean text of plain text and well-formed spans with distinct
\* labels has none of the four tags, has every label, and is a stretch of the
\* labels and the plain text in their original order.
C20_CleanTextKeepsLabels ==
    Parsed /\ PlainAndWellFormed(parts) /\ DistinctLabels(parts)
    => /\ parsed.kind = "return"
       /\ \A tag \in {RefOpen, RefClose, DetOpen, DetClose} :
              ~Contains(parsed.value.clean_text, tag)
       /\ \A i \in DOMAIN parts :
              parts[i].kind = "span"
              => Occurrences(parts[i].label, parsed.value.clean_text) # {}
       /\ Occurrences(parsed.value.clean_text, LabelsAndText(parts)) # {}

\* the text with every span whose label has no line break replaced by its label
RECURSIVE LabelsOfMatches(_)
LabelsOfMatches(ps) ==
    IF ps = <<>> THEN <<>>
    ELSE (IF Head(ps).kind = "span" /\ ~Contains(Head(ps).label, Newline)
          THEN Head(ps).label ELSE Head(ps).tokens)
         \o LabelsOfMatches(Tail(ps))

NoStrayTag ==
    \A i \in DOMAIN parts : parts[i].kind = "tag" => parts[i].tokens = <<Grounding>>

---------------------------------------------------------------------------
\* the ModelManager fields a reader must leave alone
SameHandle(old) ==
    is_loaded = old.is_loaded /\ model = old.model /\ tokenizer = old.tokenizer

InInfer(t) == frame[t].op \in {"infer", "infer_batch"}

\* C24: no step of infer or infer_batch changes the loaded flag, the model or
\* the tokenizer, and when the call has returned or raised, on whichever path,
\* the three are what they were when it began.
C24_InferLeavesHandle ==
    /\ [](\A t \in Threads : InInfer(t) /\ Idle(t) => SameHandle(frame[t].old))
    /\ [][\A t \in Threads :
            InInfer(t) /\ ~Idle(t) /\ frame'[t] # frame[t]
            => UNCHANGED <<is_loaded, model, tokenizer>>]_vars

\* a successful infer on a Ready handle, a failed one, and a batch
C24_Witness ==
    \E t \in Threads :
        /\ frame[t].op = "infer_batch" /\ Idle(t) /\ frame[t].old.is_loaded
        /\ Len(frame[t].outs) = 2
        /\ frame[t].outs[1].kind = "raise" /\ frame[t].outs[2].kind = "return"
        /\ is_loaded /\ model # None /\ tokenizer # None

UnloadDone(t) == frame[t].op = "unload_model" /\ Idle(t)

\* C25: unload_model on a handle that is not loaded changes neither the flag
\* nor the model nor the tokenizer, and reports that there was nothing to
\* unload instead of an unload.
C25_UnloadWhileUnloadedNoOp ==
    \A t \in Threads :
        UnloadDone(t) /\ ~frame[t].old.is_loaded
        => /\ SameHandle(frame[t].old)
           /\ frame[t].log = "model not loaded, nothing to unload"

\* unload_model after a load that failed behind the tokenizer
C25_Witness ==
    \E t \in Threads :
        /\ UnloadDone(t) /\ ~frame[t].old.is_loaded
        /\ frame[t].old.tokenizer # None /\ tokenizer # None

\* C26: between calls, the handle is loaded exactly if it holds both a model
\* and a tokenizer, and holds neither when it is not loaded.
C26_LoadedIffBothHeld ==
    (\A t \in Threads : Idle(t))
    => /\ is_loaded => model # None /\ tokenizer # None
       /\ ~is_loaded => model = None /\ tokenizer = None

\* C28: when deleting the temporary image file failed, the cleanup still got
\* to the temporary output directory.
C28_ReleasesIndependent ==
    \A t \in Threads :
        LET f == frame[t]
        IN  InferExited(t) /\ f.temp_output_dir # 0 /\ f.temp_image_path \in files
            => f.temp_output_dir \notin dirs \/ f.rmtree_called

\* C29: infer_batch with lists of one length, not empty, on a handle that is
\* not loaded raises the not-loaded error.
C29_BatchNotLoadedRaises ==
    \A t \in Threads :
        LET f == frame[t]
        IN  BatchDone(t) /\ f.images = f.prompts /\ f.images > 0 /\ ~f.old.is_loaded
            => f.ret.kind = "raise"

---------------------------------------------------------------------------
\* ResultProcessor.draw_bounding_boxes (result_processor.py).
\* heap[id] is the image object id: its size and what has been drawn on it.
\* A drawing operation is a record; the environment of a call (env) is the
\* font that loads and the label, if any, whose drawing raises, and where.

Max(a, b) == IF a > b THEN a ELSE b

\* the palette
colors ==
    << <<255, 0, 0>>, <<0, 255, 0>>, <<0, 0, 255>>, <<255, 255, 0>>,
       <<255, 0, 255>>, <<0, 255, 255>>, <<255, 128, 0>>, <<128, 0, 255>> >>

\* image.copy(): a new object with the same content
\* variant: no copy is made, the drawing goes to the image itself
CopyImage_Alias(h, id) == [heap |-> h, id |-> id]

CopyImage(h, id) == [heap |-> Append(h, h[id]), id |-> Len(h) + 1]

\* int(bbox[k] * size)
ToPixel(c, size) ==
    IF c.num >= 0 THEN (c.num * size) \div c.den ELSE 0 - (((0 - c.num) * size) \div c.den)

\* text[:20] + "..." if len(text) > 20 else text
TextDisplay(text) ==
    IF Len(text) > 20 THEN SubSeq(text, 1, 20) \o <<".", ".", ".">> ELSE text

\* the except clause around the three label calls: log, go on
\* variant: the label calls are not in a try
LabelExcept_Escapes(e) == e

LabelExcept(e) == "none"

\* the label of box idx (counted from 0): textbbox, the filled background,
\* the text; the operations done and the exception that leaves the try
DrawLabel(idx, text, x1, y1, font_size, env) ==
    LET text_y == Max(0, y1 - font_size - 5)
        colour == colors[(idx % Len(colors)) + 1]
        fill == [op |-> "rectangle", idx |-> idx, xy |-> <<x1, text_y>>, outline |-> <<>>,
                 fill |-> colour, width |-> 0, text |-> TextDisplay(text),
                 font |-> env.font]
        txt == [op |-> "text", idx |-> idx, xy |-> <<x1, text_y>>, outline |-> <<>>,
                fill |-> <<255, 255, 255>>, width |-> 0, text |-> TextDisplay(text),
                font |-> env.font]
    IN  IF env.fail = idx + 1 /\ env.stage = "textbbox"
        THEN [ops |-> <<>>, exc |-> LabelExcept("ValueError")]
        ELSE IF env.fail = idx + 1 /\ env.stage = "text"
        THEN [ops |-> <<fill>>, exc |-> LabelExcept("OSError")]
        ELSE [ops |-> <<fill, txt>>, exc |-> "none"]

\* the for loop from box idx (counted from 0) on. ImageDraw.rectangle raises
\* ValueError for x1 < x0 or y1 < y0; that call is in no try.
RECURSIVE DrawLoop(_, _, _, _, _)
DrawLoop(args, size, idx, ops, env) ==
    IF idx >= Len(args.boxes) THEN [ops |-> ops, exc |-> "none"]
    ELSE
    LET box_info == args.boxes[idx + 1]
        x1 == ToPixel(box_info.bbox[1], size[1])
        y1 == ToPixel(box_info.bbox[2], size[2])
        x2 == ToPixel(box_info.bbox[3], size[1])
        y2 == ToPixel(box_info.bbox[4], size[2])
        font_size == Max(12, Min(size[1], size[2]) \div 50)
        rect == [op |-> "rectangle", idx |-> idx, xy |-> <<x1, y1, x2, y2>>,
                 outline |-> colors[(idx % Len(colors)) + 1], fill |-> <<>>,
                 width |-> args.box_width, text |-> <<>>, font |-> "none"]
    IN  IF x2 < x1 \/ y2 < y1 THEN [ops |-> ops, exc |-> "ValueError"]
        ELSE IF args.show_text /\ box_info.text # <<>>
        THEN LET l == DrawLabel(idx, box_info.text, x1, y1, font_size, env)
             IN  IF l.exc # "none" THEN [ops |-> ops \o <<rect>> \o l.ops, exc |-> l.exc]
                 ELSE DrawLoop(args, size, idx + 1, ops \o <<rect>> \o l.ops, env)
        ELSE DrawLoop(args, size, idx + 1, Append(ops, rect), env)

\* draw_bounding_boxes(image, boxes, show_text, box_width): the heap
\* afterwards, the image returned or the exception raised, the operations done
draw_bounding_boxes(h, args, env) ==
    LET c == CopyImage(h, args.image)
    IN  IF args.boxes = <<>>
        THEN [heap |-> c.heap,
              drawn |-> [kind |-> "return", exc |-> "none", image |-> c.id,
                         ops |-> <<>>, env |-> env]]
        ELSE LET r == DrawLoop(args, h[args.image].size, 0, <<>>, env)
             IN  [heap |-> [c.heap EXCEPT ![c.id].pixels = @ \o r.ops],
                  drawn |-> [kind |-> IF r.exc = "none" THEN "return" ELSE "raise",
                             exc |-> r.exc,
                             image |-> IF r.exc = "none" THEN c.id ELSE 0,
                             ops |-> r.ops, env |-> env]]

\* The box lists: up to MaxBoxes boxes, all of them the box "a" except at
\* most one, which has no text, a text of 21 characters, or its corners
\* the wrong way round.
MaxBoxes == 9
Fraction(n) == [num |-> n, den |-> 999]
PlainBox == [text |-> <<"a">>,
             bbox |-> <<Fraction(100), Fraction(50), Fraction(300), Fraction(100)>>]
OddBoxes ==
    {[PlainBox EXCEPT !.text = <<>>],
     [PlainBox EXCEPT !.text = [i \in 1..21 |-> "x"]],
     [PlainBox EXCEPT !.bbox = <<Fraction(300), Fraction(50), Fraction(100), Fraction(100)>>]}
BoxLists ==
    UNION {{[i \in 1..n |-> PlainBox]}
           \cup {[i \in 1..n |-> IF i = k THEN b ELSE PlainBox] : k \in 1..n, b \in OddBoxes}
           : n \in 0..MaxBoxes}

\* a picture of 1000 x 500 on which nothing has been drawn
BlankImage == [size |-> <<1000, 500>>, pixels |-> <<>>]

InitDraw ==
    /\ InitHandle /\ NoResolve /\ NoParse /\ NoRequests
    /\ heap = <<BlankImage>>
    /\ draw_args \in [image : {1}, boxes : BoxLists, show_text : BOOLEAN, box_width : {1, 3}]
    /\ drawn = NoDrawn

\* one call draw_bounding_boxes(image, boxes, show_text, box_width)
DrawBoundingBoxes ==
    /\ drawn = NoDrawn
    /\ \E font \in {"PingFang", "default"}, fail \in 0..Len(draw_args.boxes),
          stage \in {"textbbox", "text"} :
         LET r == draw_bounding_boxes(heap, draw_args,
                                      [font |-> font, fail |-> fail, stage |-> stage])
         IN  heap' = r.heap /\ drawn' = r.drawn
    /\ UNCHANGED <<mmVars, fsVars, frame, pureVars, draw_args, hostVars>>

NextDraw == DrawBoundingBoxes

SpecDraw == InitDraw /\ [][NextDraw]_vars

Drawn == drawn.kind # "none"

\* C22: the image handed to draw_bounding_boxes is after the call what it was
\* before, whatever the boxes and options; the image returned is another
\* object; for an empty box list it has the content of the input and
\* nothing was drawn.
C22_InputImageUntouched ==
    Drawn
    => /\ heap[draw_args.image] = BlankImage
       /\ drawn.kind = "return" => drawn.image # draw_args.image
       /\ draw_args.boxes = <<>>
          => /\ drawn.kind = "return"
             /\ heap[drawn.image] = heap[draw_args.image]
             /\ drawn.ops = <<>>

\* boxes and labels were drawn on the copy, none on the input
C22_Witness ==
    /\ Drawn /\ drawn.kind = "return" /\ Len(draw_args.boxes) = 2
    /\ Len(heap[drawn.image].pixels) = 6
    /\ heap[draw_args.image].pixels = <<>>

\* the environment made the label of box i (counted from 1) fail
LabelFailed(i) ==
    /\ drawn.env.fail = i /\ i \in DOMAIN draw_args.boxes
    /\ draw_args.show_text /\ draw_args.boxes[i].text # <<>>
    /\ \A j \in 1..i : draw_args.boxes[j].bbox[1].num <= draw_args.boxes[j].bbox[3].num

HasOp(op, j) == \E k \in DOMAIN drawn.ops : drawn.ops[k].op = op /\ drawn.ops[k].idx = j - 1

---------------------------------------------------------------------------
\* The Gradio handler ocr_inference (gradio_ocr_app.py), a generator: the
\* host calls next() on it and delivers to the page every tuple it yields; a
\* tuple given to `return` ends the iteration and is delivered to nobody.
\* request[t]: stage, where the run stands; runs, the runs t has begun;
\* image, what was uploaded; delivered, the status of every tuple yielded;
\* ended, how the iteration ended ("return:..." the status of the tuple given
\* to return, "exhausted" after the last yield, or the exception that left
\* the generator); loads and infers, the load_model and infer calls made.

\* runs of the handler one thread makes
MaxRequests == 2

Loading == "loading the model"
Inferring == "running the inference"
Processing == "processing the result"
Completed == "recognition completed"
InferenceFailed == "inference failed"
UploadFirst == "error: upload an image first"
ValidationFailed == "image validation failed"

\* yield "", None, None, None, status
Yield(r, status, stage) == [r EXCEPT !.delivered = Append(@, status), !.stage = stage]
\* except Exception as e: yield ..., error_msg; the generator ends after it
YieldError(r) ==
    [r EXCEPT !.delivered = Append(@, InferenceFailed), !.stage = "done",
              !.ended = "exhausted"]
\* return "", None, None, None, status: in a generator the tuple goes into
\* StopIteration and nothing is yielded
ReturnStatus(r, status) == [r EXCEPT !.stage = "done", !.ended = status]

\* ocr_inference(image, ..., save_visualization) is called
OcrCall(t, image, save) ==
    /\ Idle(t)
    /\ request[t].stage \in {"none", "done"}
    /\ request[t].runs < MaxRequests
    /\ is_loaded \/ loader_calls.tokenizer < MaxLoads
    /\ tmp_seq + 2 <= MaxTmp
    /\ request' = [request EXCEPT ![t] =
                     [NoRequest EXCEPT !.stage = "called", !.runs = request[t].runs + 1,
                                       !.image = image, !.save_visualization = save]]
    /\ UNCHANGED <<mmVars, fsVars, frame, pureVars, drawVars>>

\* a click on the submit button
OcrInference(t) ==
    \E image \in {"None", "invalid", "valid"}, save \in BOOLEAN : OcrCall(t, image, save)

\* ocr_inference up to its first yield: the image checks, preprocess_image,
\* build_prompt, get_resolution_params
OcrValidate(t) ==
    /\ request[t].stage = "called"
    /\ \E preprocessed \in BOOLEAN :
         request' = [request EXCEPT ![t] =
                       IF @.image = "None" THEN ReturnStatus(@, UploadFirst)
                       ELSE IF @.image = "invalid" THEN ReturnStatus(@, ValidationFailed)
                       ELSE IF ~preprocessed THEN YieldError(@)
                       ELSE Yield(@, Loading, "loading")]
    /\ UNCHANGED <<mmVars, fsVars, frame, pureVars, drawVars>>

\* load_model_if_needed: if not model_manager.is_loaded(): model_manager.load_model();
\* when the model is loaded already, on to the next yield
load_model_if_needed(t) ==
    /\ request[t].stage = "loading"
    /\ Idle(t)
    /\ IF ~IsLoaded
       THEN /\ frame' = [frame EXCEPT ![t] = Enter("load_model", "load_check")]
            /\ request' = [request EXCEPT ![t].stage = "in_load", ![t].loads = @ + 1]
       ELSE /\ request' = [request EXCEPT ![t] = Yield(@, Inferring, "inferring")]
            /\ UNCHANGED frame
    /\ UNCHANGED <<mmVars, fsVars, pureVars, drawVars>>

\* load_model came back: the except clause of the handler, or the second yield
OcrLoaded(t) ==
    /\ request[t].stage = "in_load"
    /\ LoadDone(t)
    /\ request' = [request EXCEPT ![t] =
                     IF frame[t].ret.kind = "raise" THEN YieldError(@)
                     ELSE Yield(@, Inferring, "inferring")]
    /\ UNCHANGED <<mmVars, fsVars, frame, pureVars, drawVars>>

\* ocr_engine.infer(image=image, prompt=prompt, ...)
OcrInfer(t) ==
    /\ request[t].stage = "inferring"
    /\ Idle(t)
    /\ frame' = [frame EXCEPT ![t] = InferLocals(Enter("infer", "infer_check"))]
    /\ request' = [request EXCEPT ![t].stage = "in_infer", ![t].infers = @ + 1]
    /\ UNCHANGED <<mmVars, fsVars, pureVars, drawVars>>

\* infer came back: the except clause of the handler, or the third yield
OcrInferred(t) ==
    /\ request[t].stage = "in_infer"
    /\ InferDone(t)
    /\ request' = [request EXCEPT ![t] =
                     IF frame[t].ret.kind = "raise" THEN YieldError(@)
                     ELSE Yield(@, Processing, "processing")]
    /\ UNCHANGED <<mmVars, fsVars, frame, pureVars, drawVars>>

\* parse_result, draw_bounding_boxes when asked for and there are boxes,
\* save_results, the last yield. parse_result returns with or without boxes
\* or lets the SystemExit of a coordinate text through, which is no Exception;
\* draw_bounding_boxes and os.makedirs may raise an Exception.
OcrProcess(t) ==
    /\ request[t].stage = "processing"
    /\ \E parse \in {"boxes", "no boxes", "SystemExit"}, draw_ok \in BOOLEAN,
          save_ok \in BOOLEAN :
         request' = [request EXCEPT ![t] =
                       IF parse = "SystemExit"
                       THEN [@ EXCEPT !.stage = "done", !.ended = "SystemExit"]
                       ELSE IF @.save_visualization /\ parse = "boxes" /\ ~draw_ok
                       THEN YieldError(@)
                       ELSE IF ~save_ok THEN YieldError(@)
                       ELSE [Yield(@, Completed, "done") EXCEPT !.ended = "exhausted"]]
    /\ UNCHANGED <<mmVars, fsVars, frame, pureVars, drawVars>>

\* one thread serves the page, one run after the other
NextHandler ==
    \/ OcrInference(Main)
    \/ OcrValidate(Main)
    \/ load_model_if_needed(Main)
    \/ LoadCheck(Main)
    \/ LoadTokenizer(Main)
    \/ LoadModel(Main)
    \/ LoadEval(Main)
    \/ LoadConvert(Main)
    \/ LoadToDevice(Main)
    \/ OcrLoaded(Main)
    \/ OcrInfer(Main)
    \/ InferCheck(Main)
    \/ InferFetch(Main)
    \/ InferTmpFile(Main)
    \/ InferSave(Main)
    \/ InferMkdtemp(Main)
    \/ InferModel(Main)
    \/ InferCleanup(Main)
    \/ OcrInferred(Main)
    \/ OcrProcess(Main)

SpecHandler == Init /\ [][NextHandler]_vars

\* C30: every run of ocr_inference delivers a last tuple: with the image
\* missing or failing validation its status is the matching error message
\* and no load or model call was made; otherwise the statuses delivered are
\* loading, inferring, processing in that order, up to where the run stopped,
\* then the result or the error status.
Progress == <<Loading, Inferring, Processing>>

C30_FinalTupleDelivered ==
    \A t \in Threads :
        request[t].stage = "done" =>
            LET r == request[t]
                n == Len(r.delivered)
            IN /\ n > 0
               /\ r.image = "None" =>
                      r.delivered[n] = UploadFirst /\ r.loads = 0 /\ r.infers = 0
               /\ r.image = "invalid" =>
                      r.delivered[n] = ValidationFailed /\ r.loads = 0 /\ r.infers = 0
               /\ r.image = "valid" =>
                      /\ n <= 4
                      /\ SubSeq(r.delivered, 1, n - 1) = SubSeq(Progress, 1, n - 1)
                      /\ r.delivered[n] \in {Completed, InferenceFailed}
                      /\ r.delivered[n] = Completed => n = 4

---------------------------------------------------------------------------
\* Two requests against one ModelManager. Neither load_model_if_needed nor
\* load_model takes a lock and the application sets no concurrency limit, so
\* the steps of the two requests interleave freely.

\* Both requests carry an image that passes validation, so both come to
\* load_model_if_needed, and neither asks for the visualisation.
OcrRequest(t) == OcrCall(t, "valid", FALSE) /\ request[t].runs = 0

\* thread t is inside load_model, past the is_loaded check
Loads(t) ==
    /\ frame[t].op = "load_model"
    /\ frame[t].pc \in {"load_tokenizer", "load_model", "load_eval",
                        "load_convert", "load_to_device"}

\* thread t is at model.infer(...)
AtModelCall(t) == frame[t].op = "infer" /\ frame[t].pc = "infer_model"

Request(t) ==
    \/ OcrRequest(t)
    \/ OcrValidate(t)
    \/ load_model_if_needed(t)
    \/ LoadCheck(t)
    \/ LoadTokenizer(t)
    \/ LoadModel(t)
    \/ LoadEval(t)
    \/ LoadConvert(t)
    \/ LoadToDevice(t)
    \/ OcrLoaded(t)
    \/ OcrInfer(t)
    \/ InferCheck(t)
    \/ InferFetch(t)
    \/ InferTmpFile(t)
    \/ InferSave(t)
    \/ InferMkdtemp(t)
    \/ InferModel(t)
    \/ InferCleanup(t)
    \/ OcrInferred(t)
    \/ OcrProcess(t)

NextRequests == \E t \in Threads : Request(t)

SpecRequests == Init /\ [][NextRequests]_vars

====
